---- MODULE Spec2Model ----
(***************************************************************************)
(* A model of the Bluesky Jetstream firehose tap (main.go).  The source    *)
(* holds two variants of the program: the "counter" variant (lines 1-183,  *)
(* with processEvent and a message-rate ticker) and the "inline" variant   *)
(* (lines 186-305, which handles commit events inside the read loop).      *)
(* The variable `variant` fixes which of the two programs a behaviour runs.*)
(***************************************************************************)
EXTENDS Integers, Sequences, FiniteSets, TLC

VARIABLES
    variant,       \* which of the two programs runs: "counter" or "inline"
    mainpc,        \* position of the main goroutine
    exitCode,      \* process exit status, -1 while the process runs
    dialAttempts,  \* number of calls of websocket.DefaultDialer.Dial
    interrupt,     \* number of signals buffered in the interrupt channel (cap 1)
    done,          \* TRUE once the done channel is closed
    readerpc,      \* position of the read-loop goroutine
    tickerOn,      \* TRUE once the ticker goroutine has been started
    conn,          \* the connection: "none", "open" or "failed" (dial error)
    readErr,       \* TRUE once ReadMessage has returned an error
    received,      \* the messages ReadMessage has returned, in arrival order
    handled,       \* number of messages whose handling has completed
    messageCount,  \* the shared atomic counter (counter variant)
    lastCount,     \* the ticker goroutine's baseline
    ticks,         \* number of ticks the ticker goroutine has taken
    closeWrites,   \* number of close frames handed to c.WriteMessage
    calls,         \* post decode attempts and handler invocations, in order
    out,           \* the lines the read loop wrote (stdout and log), in order
    rates,         \* the lines the ticker goroutine wrote, in order
    mainLog        \* the lines the main goroutine logged, in order

vars == <<variant, mainpc, exitCode, dialAttempts, interrupt, done,
          readerpc, tickerOn, conn, readErr, received, handled, messageCount,
          lastCount, ticks, closeWrites, calls, out, rates, mainLog>>

(***************************************************************************)
(* Bounds of the model.                                                    *)
(***************************************************************************)
MaxMsgs == 2
MaxTicks == 2

(***************************************************************************)
(* JSON documents as they arrive on the wire.  A document is a tagged      *)
(* value; "invalid" stands for bytes that are not syntactically JSON.      *)
(***************************************************************************)
JInvalid == [t |-> "invalid"]
JNull == [t |-> "null"]
JStr(s) == [t |-> "str", s |-> s]
JNum(n) == [t |-> "num", n |-> n]
JBool(b) == [t |-> "bool", b |-> b]
JObj(f) == [t |-> "obj", f |-> f]

\* json.RawMessage(nil): the field was absent from the enclosing object.
NoBytes == [t |-> "empty"]

FeedPost == "app.bsky.feed.post"

(***************************************************************************)
(* encoding/json field decoding: an absent key or a JSON null leaves the   *)
(* Go field at its old value without error; a value of the wrong JSON type *)
(* is an UnmarshalTypeError (decoding goes on, the error is returned).     *)
(* Keys are matched as spelled in the struct tags.                         *)
(***************************************************************************)
Skips(o, k) == k \notin DOMAIN o \/ o[k].t = "null"

StrField(o, k) ==
    IF Skips(o, k) THEN [err |-> FALSE, v |-> ""]
    ELSE IF o[k].t = "str" THEN [err |-> FALSE, v |-> o[k].s]
    ELSE [err |-> TRUE, v |-> ""]

IntField(o, k) ==
    IF Skips(o, k) THEN [err |-> FALSE, v |-> 0]
    ELSE IF o[k].t = "num" THEN [err |-> FALSE, v |-> o[k].n]
    ELSE [err |-> TRUE, v |-> 0]

BoolField(o, k) ==
    IF Skips(o, k) THEN [err |-> FALSE, v |-> FALSE]
    ELSE IF o[k].t = "bool" THEN [err |-> FALSE, v |-> o[k].b]
    ELSE [err |-> TRUE, v |-> FALSE]

\* json.RawMessage keeps the bytes of any JSON value, a null included.
RawField(o, k) == IF k \in DOMAIN o THEN o[k] ELSE NoBytes

(***************************************************************************)
(* The Go structs.  A pointer field is a record whose ptr says whether the *)
(* pointer is non-nil; the other fields are the pointee's.                 *)
(***************************************************************************)
NilCommit ==
    [ptr |-> FALSE, Rev |-> "", Operation |-> "", Collection |-> "",
     RKey |-> "", Record |-> NoBytes, CID |-> ""]

NilIdentity ==
    [ptr |-> FALSE, Handle |-> "", DisplayName |-> "", Description |-> "",
     Seq |-> 0, Time |-> ""]

NilAccount == [ptr |-> FALSE, Active |-> FALSE, Seq |-> 0, Time |-> ""]

ZeroEvent ==
    [Did |-> "", TimeUS |-> 0, Kind |-> "", Commit |-> NilCommit,
     Identity |-> NilIdentity, Account |-> NilAccount]

\* time.Time{}: the zero time.  A time is the record of its calendar
\* fields in UTC.
ZeroTime == [date |-> "0001-01-01", clock |-> "00:00:00"]

ZeroPost == [Text |-> "", CreatedAt |-> ZeroTime]

UnmarshalCommit(j) ==
    IF j.t = "null" THEN [err |-> FALSE, v |-> NilCommit]
    ELSE IF j.t # "obj" THEN [err |-> TRUE, v |-> [NilCommit EXCEPT !.ptr = TRUE]]
    ELSE LET o == j.f
             rev == StrField(o, "rev")
             op == StrField(o, "operation")
             col == StrField(o, "collection")
             rkey == StrField(o, "rkey")
             cid == StrField(o, "cid")
         IN  [err |-> rev.err \/ op.err \/ col.err \/ rkey.err \/ cid.err,
              v |-> [ptr |-> TRUE, Rev |-> rev.v, Operation |-> op.v,
                     Collection |-> col.v, RKey |-> rkey.v,
                     Record |-> RawField(o, "record"), CID |-> cid.v]]

UnmarshalIdentity(j) ==
    IF j.t = "null" THEN [err |-> FALSE, v |-> NilIdentity]
    ELSE IF j.t # "obj" THEN [err |-> TRUE, v |-> [NilIdentity EXCEPT !.ptr = TRUE]]
    ELSE LET o == j.f
             h == StrField(o, "handle")
             dn == StrField(o, "displayName")
             ds == StrField(o, "description")
             sq == IntField(o, "seq")
             tm == StrField(o, "time")
         IN  [err |-> h.err \/ dn.err \/ ds.err \/ sq.err \/ tm.err,
              v |-> [ptr |-> TRUE, Handle |-> h.v, DisplayName |-> dn.v,
                     Description |-> ds.v, Seq |-> sq.v, Time |-> tm.v]]

UnmarshalAccount(j) ==
    IF j.t = "null" THEN [err |-> FALSE, v |-> NilAccount]
    ELSE IF j.t # "obj" THEN [err |-> TRUE, v |-> [NilAccount EXCEPT !.ptr = TRUE]]
    ELSE LET o == j.f
             ac == BoolField(o, "active")
             sq == IntField(o, "seq")
             tm == StrField(o, "time")
         IN  [err |-> ac.err \/ sq.err \/ tm.err,
              v |-> [ptr |-> TRUE, Active |-> ac.v, Seq |-> sq.v, Time |-> tm.v]]

\* A pointer field whose key is absent stays nil.
Absent(nil) == [err |-> FALSE, v |-> nil]

(***************************************************************************)
(* json.Unmarshal(message, &event).  The inline variant's Event struct has *)
(* no Identity and no Account field, so it ignores those keys.             *)
(***************************************************************************)
UnmarshalEvent(vr, raw) ==
    IF raw.t = "invalid" THEN [err |-> TRUE, v |-> ZeroEvent]
    ELSE IF raw.t = "null" THEN [err |-> FALSE, v |-> ZeroEvent]
    ELSE IF raw.t # "obj" THEN [err |-> TRUE, v |-> ZeroEvent]
    ELSE LET o == raw.f
             did == StrField(o, "did")
             tus == IntField(o, "time_us")
             kind == StrField(o, "kind")
             com == IF "commit" \in DOMAIN o THEN UnmarshalCommit(o.commit)
                    ELSE Absent(NilCommit)
             idn == IF vr = "counter" /\ "identity" \in DOMAIN o
                    THEN UnmarshalIdentity(o.identity)
                    ELSE Absent(NilIdentity)
             acc == IF vr = "counter" /\ "account" \in DOMAIN o
                    THEN UnmarshalAccount(o.account)
                    ELSE Absent(NilAccount)
         IN  [err |-> did.err \/ tus.err \/ kind.err \/ com.err \/ idn.err \/ acc.err,
              v |-> [Did |-> did.v, TimeUS |-> tus.v, Kind |-> kind.v,
                     Commit |-> com.v, Identity |-> idn.v, Account |-> acc.v]]

(***************************************************************************)
(* time.Time.UnmarshalJSON parses an RFC 3339 string.  The table holds the *)
(* timestamps that occur in the message set; the other strings of the set  *)
(* ("yesterday", "") are not RFC 3339 and fail to parse.                    *)
(***************************************************************************)
ParseRFC3339(s) ==
    CASE s = "2024-01-01T00:00:00Z" ->
            [err |-> FALSE, v |-> [date |-> "2024-01-01", clock |-> "00:00:00"]]
      [] s = "2024-06-01T12:30:00Z" ->
            [err |-> FALSE, v |-> [date |-> "2024-06-01", clock |-> "12:30:00"]]
      [] OTHER -> [err |-> TRUE, v |-> ZeroTime]

TimeField(o, k) ==
    IF Skips(o, k) THEN [err |-> FALSE, v |-> ZeroTime]
    ELSE IF o[k].t = "str" THEN ParseRFC3339(o[k].s)
    ELSE [err |-> TRUE, v |-> ZeroTime]

\* time.Time.String(), the form %s prints: "2006-01-02 15:04:05 +0000 UTC".
TimeString(t) == t.date \o " " \o t.clock \o " +0000 UTC"

\* time.UnixMicro(us).Format(time.RFC3339), with the local zone UTC: the
\* sub-second part is dropped.  Defined for the first minute of the epoch.
Pad2(n) == IF n < 10 THEN "0" \o ToString(n) ELSE ToString(n)

FormatUnixMicro(us) == "1970-01-01T00:00:" \o Pad2((us \div 1000000) % 60) \o "Z"

\* fmt's %v of a bool and %d of an integer.
FmtBool(b) == IF b THEN "true" ELSE "false"

FmtInt(n) == ToString(n)

(***************************************************************************)
(* json.Unmarshal(event.Commit.Record, &post): the second-stage decode.    *)
(* Empty input is an error ("unexpected end of JSON input"); a JSON null   *)
(* decodes to the zero Post without error.  Only the counter variant's     *)
(* Post has the $type field.                                               *)
(***************************************************************************)
UnmarshalPost(vr, b) ==
    IF b.t \in {"empty", "invalid"} THEN [err |-> TRUE, v |-> ZeroPost]
    ELSE IF b.t = "null" THEN [err |-> FALSE, v |-> ZeroPost]
    ELSE IF b.t # "obj" THEN [err |-> TRUE, v |-> ZeroPost]
    ELSE LET o == b.f
             ty == IF vr = "counter" THEN StrField(o, "$type")
                   ELSE [err |-> FALSE, v |-> ""]
             tx == StrField(o, "text")
             ca == TimeField(o, "createdAt")
         IN  [err |-> ty.err \/ tx.err \/ ca.err,
              v |-> [Text |-> tx.v, CreatedAt |-> ca.v]]

(***************************************************************************)
(* Output.  A line records the message it was written for (0: none), the   *)
(* stream, the code that wrote it, and its label and value.  Each          *)
(* goroutine's lines are kept in the order it wrote them.                  *)
(***************************************************************************)
Line(i, stream, by, key, val) ==
    [msg |-> i, stream |-> stream, by |-> by, key |-> key, val |-> val]

Call(i, what) == [msg |-> i, what |-> what]

Nothing == [calls |-> <<>>, out |-> <<>>]

(***************************************************************************)
(* The counter variant's handlers.                                         *)
(***************************************************************************)
ProcessedOperations_UpdateOnly == {"update"}

ProcessedOperations_WithDelete == {"create", "update", "delete"}

IsFeedPost_Any(collection) == TRUE

\* main.go:81 and 271: the collection whose record is decoded as a post.
IsFeedPost(collection) == collection = FeedPost

\* main.go:79: the operations processCommit acts on.
ProcessedOperations == {"create", "update"}

PostErrorLines_FallThrough(i) ==
    <<Line(i, "log", "processCommit", "Error unmarshaling post", ""),
      Line(i, "stdout", "processCommit", "Post Text", ""),
      Line(i, "stdout", "processCommit", "Post created At", TimeString(ZeroTime))>>

\* main.go:84-85: what follows a failed post decode in processCommit.
PostErrorLines(i) ==
    <<Line(i, "log", "processCommit", "Error unmarshaling post", "")>>

processCommit(event, i) ==
    IF /\ event.Commit.Operation \in ProcessedOperations
       /\ IsFeedPost(event.Commit.Collection)
    THEN LET p == UnmarshalPost("counter", event.Commit.Record)
         IN  IF p.err
             THEN [calls |-> <<Call(i, "UnmarshalPost")>>, out |-> PostErrorLines(i)]
             ELSE [calls |-> <<Call(i, "UnmarshalPost")>>,
                   out |-> <<Line(i, "stdout", "processCommit", "Post Text", p.v.Text),
                             Line(i, "stdout", "processCommit",
                                  "Post " \o event.Commit.Operation \o "d At",
                                  TimeString(p.v.CreatedAt))>>]
    ELSE Nothing

processIdentity(event, i) ==
    [calls |-> <<>>,
     out |-> <<Line(i, "stdout", "processIdentity", "", "--- Identity Update ---"),
               Line(i, "stdout", "processIdentity", "DID", event.Did),
               Line(i, "stdout", "processIdentity", "Handle", event.Identity.Handle),
               Line(i, "stdout", "processIdentity", "Display Name",
                    event.Identity.DisplayName),
               Line(i, "stdout", "processIdentity", "Description",
                    event.Identity.Description),
               Line(i, "stdout", "processIdentity", "Sequence",
                    FmtInt(event.Identity.Seq)),
               Line(i, "stdout", "processIdentity", "Time", event.Identity.Time)>>]

processAccount(event, i) ==
    [calls |-> <<>>,
     out |-> <<Line(i, "stdout", "processAccount", "", "--- Account Update ---"),
               Line(i, "stdout", "processAccount", "DID", event.Did),
               Line(i, "stdout", "processAccount", "Active",
                    FmtBool(event.Account.Active)),
               Line(i, "stdout", "processAccount", "Sequence",
                    FmtInt(event.Account.Seq)),
               Line(i, "stdout", "processAccount", "Time", event.Account.Time)>>]

Invoke(i, name, r) == [calls |-> <<Call(i, name)>> \o r.calls, out |-> r.out]

processEvent_ByPayload(event, i) ==
    CASE event.Commit.ptr ->
            Invoke(i, "processCommit", processCommit(event, i))
      [] event.Identity.ptr ->
            Invoke(i, "processIdentity", processIdentity(event, i))
      [] event.Account.ptr ->
            Invoke(i, "processAccount", processAccount(event, i))
      [] OTHER -> Nothing

processEvent_EveryPayload(event, i) ==
    LET c == IF event.Commit.ptr
             THEN Invoke(i, "processCommit", processCommit(event, i)) ELSE Nothing
        d == IF event.Identity.ptr
             THEN Invoke(i, "processIdentity", processIdentity(event, i)) ELSE Nothing
        a == IF event.Account.ptr
             THEN Invoke(i, "processAccount", processAccount(event, i)) ELSE Nothing
    IN  [calls |-> c.calls \o d.calls \o a.calls, out |-> c.out \o d.out \o a.out]

\* main.go:60-75.
processEvent(event, i) ==
    CASE event.Kind = "commit" /\ event.Commit.ptr ->
            Invoke(i, "processCommit", processCommit(event, i))
      [] event.Kind = "identity" /\ event.Identity.ptr ->
            Invoke(i, "processIdentity", processIdentity(event, i))
      [] event.Kind = "account" /\ event.Account.ptr ->
            Invoke(i, "processAccount", processAccount(event, i))
      [] OTHER -> Nothing

(***************************************************************************)
(* The inline variant's handling of a decoded event (main.go:254-282).     *)
(***************************************************************************)
\* main.go:259: the operations the inline variant acts on.
InlineOperations == {"create"}

InlineHeader(event, i) ==
    <<Line(i, "stdout", "commit", "", "--- New Post Event ---"),
      Line(i, "stdout", "commit", "DID", event.Did),
      Line(i, "stdout", "commit", "Time", FormatUnixMicro(event.TimeUS)),
      Line(i, "stdout", "commit", "Operation", event.Commit.Operation),
      Line(i, "stdout", "commit", "Collection", event.Commit.Collection),
      Line(i, "stdout", "commit", "RKey", event.Commit.RKey),
      Line(i, "stdout", "commit", "CID", event.Commit.CID),
      Line(i, "stdout", "commit", "Rev", event.Commit.Rev)>>

InlineFooter(i) == <<Line(i, "stdout", "commit", "", "-------------------")>>

InlineCommit(event, i) ==
    IF event.Commit.Operation \in InlineOperations
    THEN IF IsFeedPost(event.Commit.Collection)
         THEN LET p == UnmarshalPost("inline", event.Commit.Record)
              IN  IF p.err
                  THEN [calls |-> <<Call(i, "UnmarshalPost")>>,
                        out |-> InlineHeader(event, i) \o
                                <<Line(i, "log", "commit", "Error unmarshaling post", "")>>]
                  ELSE [calls |-> <<Call(i, "UnmarshalPost")>>,
                        out |-> InlineHeader(event, i) \o
                                <<Line(i, "stdout", "commit", "Post Text", p.v.Text),
                                  Line(i, "stdout", "commit", "Post Created At",
                                       TimeString(p.v.CreatedAt))>> \o
                                InlineFooter(i)]
         ELSE [calls |-> <<>>, out |-> InlineHeader(event, i) \o InlineFooter(i)]
    ELSE Nothing

InlineEvent(event, i) ==
    LET kindLine == <<Line(i, "stdout", "loop", "event.Kind", event.Kind)>>
    IN  IF event.Kind = "commit" /\ event.Commit.ptr
        THEN LET r == Invoke(i, "commit", InlineCommit(event, i))
             IN  [calls |-> r.calls, out |-> kindLine \o r.out]
        ELSE [calls |-> <<>>, out |-> kindLine]

(***************************************************************************)
(* The messages the connection may deliver.                                *)
(***************************************************************************)
PostRecord(text, created) == JObj([text |-> JStr(text), createdAt |-> JStr(created)])

CommitOf(op, col, rec) ==
    JObj([operation |-> JStr(op), collection |-> JStr(col), rkey |-> JStr("3k"),
          cid |-> JStr("bafy"), rev |-> JStr("r1"), record |-> rec])

CommitEvent(did, us, com) ==
    JObj([did |-> JStr(did), time_us |-> JNum(us), kind |-> JStr("commit"),
          commit |-> com])

IdentityOf(handle, seq) ==
    JObj([handle |-> JStr(handle), seq |-> JNum(seq),
          time |-> JStr("2024-01-01T00:00:00Z")])

AccountOf(active, seq) ==
    JObj([active |-> JBool(active), seq |-> JNum(seq),
          time |-> JStr("2024-01-01T00:00:00Z")])

GoodPost == PostRecord("hello", "2024-01-01T00:00:00Z")

Messages ==
    { JInvalid,
      CommitEvent("abc", 2000, CommitOf("create", FeedPost, GoodPost)),
      CommitEvent("abd", 1500000, CommitOf("create", FeedPost,
                                           PostRecord("late", "yesterday"))),
      CommitEvent("abe", 1000, CommitOf("update", FeedPost,
                                        PostRecord("edited", "2024-06-01T12:30:00Z"))),
      CommitEvent("abc", 1000, CommitOf("delete", FeedPost, GoodPost)),
      CommitEvent("abc", 1000, CommitOf("create", "app.bsky.feed.like",
                                        JObj([subject |-> JStr("at://x")]))),
      CommitEvent("abg", 1000, CommitOf("update", "app.bsky.graph.follow",
                                        JObj([subject |-> JStr("did:y")]))),
      JObj([did |-> JStr("abc"), time_us |-> JNum(1000), kind |-> JStr("commit")]),
      JObj([did |-> JStr("abc"), time_us |-> JNum(1000), kind |-> JStr("account"),
            account |-> AccountOf(FALSE, 5)]),
      JObj([did |-> JStr("abc"), time_us |-> JNum(1000), kind |-> JStr("info"),
            commit |-> CommitOf("create", FeedPost, GoodPost)]),
      JObj([did |-> JStr("abc"), time_us |-> JNum(1000),
            commit |-> CommitOf("create", FeedPost, GoodPost)]),
      JObj([did |-> JStr("abf"), time_us |-> JNum(1000), kind |-> JStr("identity"),
            identity |-> IdentityOf("bob.test", 8),
            commit |-> CommitOf("create", FeedPost, GoodPost)]) }

\* A malformed message, a post and an account update: enough for what
\* depends on the course of the run and not on what the messages say.
SampleMessages ==
    { JInvalid,
      CommitEvent("abc", 2000, CommitOf("create", FeedPost, GoodPost)),
      JObj([did |-> JStr("abc"), time_us |-> JNum(1000), kind |-> JStr("account"),
            account |-> AccountOf(FALSE, 5)]) }

(***************************************************************************)
(* The process.                                                            *)
(***************************************************************************)
Variants == {"counter", "inline"}

Init ==
    /\ variant \in Variants
    /\ mainpc = "dial"
    /\ exitCode = -1
    /\ dialAttempts = 0
    /\ interrupt = 0
    /\ done = FALSE
    /\ readerpc = "idle"
    /\ tickerOn = FALSE
    /\ conn = "none"
    /\ readErr = FALSE
    /\ received = <<>>
    /\ handled = 0
    /\ messageCount = 0
    /\ lastCount = 0
    /\ ticks = 0
    /\ closeWrites = 0
    /\ calls = <<>>
    /\ out = <<>>
    /\ rates = <<>>
    /\ mainLog = <<>>

\* The process runs, past the dial: goroutines are scheduled only then.
Alive == mainpc \in {"select", "drain"}

DialErrorPc_Continue == "select"

\* main.go:117-119 and 228-230: log.Fatal on a dial error.
DialErrorPc == "fatal"

(***************************************************************************)
(* main.go:116-164 and 227-284: dial once; on success register the signal  *)
(* channel, start the ticker (counter variant) and the read loop, and      *)
(* block in the select.                                                    *)
(***************************************************************************)
Dial ==
    /\ mainpc = "dial"
    /\ dialAttempts' = dialAttempts + 1
    /\ \E ok \in BOOLEAN :
        LET pc == IF ok THEN "select" ELSE DialErrorPc
        IN  /\ conn' = IF ok THEN "open" ELSE "failed"
            /\ mainpc' = pc
            /\ exitCode' = IF pc = "fatal" THEN 1 ELSE exitCode
            /\ readerpc' = IF pc = "select" THEN "read" ELSE readerpc
            /\ tickerOn' = (pc = "select" /\ variant = "counter")
            /\ mainLog' = IF ok THEN mainLog
                          ELSE Append(mainLog, Line(0, "log", "main", "dial", ""))
    /\ UNCHANGED <<variant, interrupt, done, readErr, received, handled,
                   messageCount, lastCount, ticks, closeWrites, calls, out, rates>>

(***************************************************************************)
(* The operating system delivers an interrupt signal.  Before              *)
(* signal.Notify (main.go:124, 235) the Go runtime's default ends the      *)
(* process with status 2; after it the signal is sent to the channel of    *)
(* capacity 1 without blocking, so it is dropped when the channel is full  *)
(* (which leaves the state as it is).  Main reads the channel only in the  *)
(* outer select: a signal that arrives later is never read and is left out.*)
(***************************************************************************)
Signal ==
    /\ mainpc \in {"dial", "select"}
    /\ IF mainpc = "dial"
       THEN /\ mainpc' = "killed"
            /\ exitCode' = 2
            /\ UNCHANGED interrupt
       ELSE /\ interrupt' = IF interrupt < 1 THEN interrupt + 1 ELSE interrupt
            /\ UNCHANGED <<mainpc, exitCode>>
    /\ UNCHANGED <<variant, dialAttempts, done, readerpc, tickerOn, conn, readErr,
                   received, handled, messageCount, lastCount, ticks, closeWrites,
                   calls, out, rates, mainLog>>

Exit_Reconnect ==
    /\ mainpc' = "dial"
    /\ exitCode' = exitCode

\* main.go:169/181 and 290/302: return from main, the process exits with 0.
Exit ==
    /\ mainpc' = "exited"
    /\ exitCode' = 0

SelectDone_WithClose ==
    /\ mainpc = "select"
    /\ done
    /\ Exit
    /\ closeWrites' = closeWrites + 1
    /\ UNCHANGED <<variant, dialAttempts, interrupt, done, readerpc,
                   tickerOn, conn, readErr, received, handled, messageCount,
                   lastCount, ticks, calls, out, rates, mainLog>>

\* main.go:168-169 and 289-290: the read loop is over.
SelectDone ==
    /\ mainpc = "select"
    /\ done
    /\ Exit
    /\ UNCHANGED <<variant, dialAttempts, interrupt, done, readerpc,
                   tickerOn, conn, readErr, received, handled, messageCount,
                   lastCount, ticks, closeWrites, calls, out, rates, mainLog>>

AfterCloseWritePc_Select == "select"

\* main.go:177-180 and 298-301: where main goes after the close write.
AfterCloseWritePc == "drain"

(***************************************************************************)
(* main.go:170-176 and 291-297: take the signal, log, write the close      *)
(* frame (the write may fail, which is only logged).                       *)
(***************************************************************************)
SelectInterrupt ==
    /\ mainpc = "select"
    /\ interrupt > 0
    /\ interrupt' = interrupt - 1
    /\ closeWrites' = closeWrites + 1
    /\ \E ok \in BOOLEAN :
        mainLog' = mainLog \o
                   <<Line(0, "log", "main", "Received interrupt signal", "")>> \o
                   (IF ok THEN <<>> ELSE <<Line(0, "log", "main", "write close", "")>>)
    /\ mainpc' = AfterCloseWritePc
    /\ UNCHANGED <<variant, exitCode, dialAttempts, done, readerpc,
                   tickerOn, conn, readErr, received, handled, messageCount,
                   lastCount, ticks, calls, out, rates>>

\* main.go:178 and 299: the read loop ended during the wait.
DrainDone ==
    /\ mainpc = "drain"
    /\ done
    /\ Exit
    /\ UNCHANGED <<variant, dialAttempts, interrupt, done, readerpc,
                   tickerOn, conn, readErr, received, handled, messageCount,
                   lastCount, ticks, closeWrites, calls, out, rates, mainLog>>

\* main.go:179 and 300: time.After(time.Second) fired.
DrainTimeout ==
    /\ mainpc = "drain"
    /\ Exit
    /\ UNCHANGED <<variant, dialAttempts, interrupt, done, readerpc,
                   tickerOn, conn, readErr, received, handled, messageCount,
                   lastCount, ticks, closeWrites, calls, out, rates, mainLog>>

(***************************************************************************)
(* The read loop (main.go:144-164 and 239-284).                            *)
(***************************************************************************)
ReadReady_Pipelined == readerpc \in {"read", "handle"}

\* The loop calls ReadMessage only at the top of an iteration, after the
\* previous message's handling returned.
ReadReady == readerpc = "read"

ReadErrorPc_Continue == "read"

\* main.go:148-151 and 243-246: a read error returns from the goroutine.
ReadErrorPc == "returned"

AfterReadPc_NoCount == "handle"

\* main.go:153-154: the counter variant counts the message before decoding
\* it; the inline variant (main.go:248) goes straight to the decode.
AfterReadPc == IF variant = "counter" THEN "count" ELSE "handle"

\* main.go:147-151 and 241-245: c.ReadMessage returns the next message, one
\* of msgs, or an error, which is logged and ends the goroutine.
ReadFrom(msgs) ==
    /\ Alive
    /\ ReadReady
    /\ \/ /\ Len(received) < MaxMsgs
          /\ \E m \in msgs : received' = Append(received, m)
          /\ readerpc' = AfterReadPc
          /\ UNCHANGED <<readErr, done, out>>
       \/ /\ readErr' = TRUE
          /\ out' = Append(out, Line(0, "log", "reader", "read", ""))
          /\ readerpc' = ReadErrorPc
          /\ done' = (done \/ ReadErrorPc = "returned")
          /\ UNCHANGED received
    /\ UNCHANGED <<variant, mainpc, exitCode, dialAttempts, interrupt,
                   tickerOn, conn, handled, messageCount, lastCount, ticks,
                   closeWrites, calls, rates, mainLog>>

\* The connection may deliver any of the messages.
ReadMessage == ReadFrom(Messages)

\* The same call, on a connection that delivers a sample of the messages.
ReadSample == ReadFrom(SampleMessages)

Incremented_Store(count) == 1

\* main.go:154: atomic.AddUint64(&messageCount, 1), one indivisible step.
Incremented(count) == count + 1

\* main.go:153-154: the read loop counts the message.  The counter is a
\* uint64; a run of at most MaxMsgs messages stays far below 2^64.
CountMessage ==
    /\ Alive
    /\ readerpc = "count"
    /\ messageCount' = Incremented(messageCount)
    /\ readerpc' = "handle"
    /\ UNCHANGED <<variant, mainpc, exitCode, dialAttempts, interrupt,
                   done, tickerOn, conn, readErr, received, handled, lastCount,
                   ticks, closeWrites, calls, out, rates, mainLog>>

DecodeErrorPc_Return == "returned"

\* main.go:157-160 and 249-252: a failed decode is logged and the loop
\* continues.
DecodeErrorPc == "read"

DecodeErrorLines(i) ==
    <<Line(i, "log", "reader", "Error unmarshaling event", "")>>

Dispatch_OnceOnly(event, i) ==
    IF calls # <<>> THEN Nothing
    ELSE IF variant = "counter" THEN processEvent(event, i) ELSE InlineEvent(event, i)

\* main.go:162 and 254-282: what the loop does with a decoded event.
Dispatch(event, i) ==
    IF variant = "counter" THEN processEvent(event, i) ELSE InlineEvent(event, i)

\* The handler invocations and the lines that handling message m, the
\* i-th received, produces.
Handling(m, i) ==
    LET d == UnmarshalEvent(variant, m)
    IN  IF d.err THEN [calls |-> <<>>, out |-> DecodeErrorLines(i)]
        ELSE Dispatch(d.v, i)

(***************************************************************************)
(* main.go:156-162 and 248-282: decode the message, dispatch it and write  *)
(* all of its output, then go back to the top of the loop.                 *)
(***************************************************************************)
HandleMessage ==
    /\ Alive
    /\ readerpc = "handle"
    /\ LET i == Len(received)
           r == Handling(received[i], i)
           pc == IF UnmarshalEvent(variant, received[i]).err
                 THEN DecodeErrorPc ELSE "read"
       IN  /\ calls' = calls \o r.calls
           /\ out' = out \o r.out
           /\ handled' = i
           /\ readerpc' = pc
           /\ done' = (done \/ pc = "returned")
    /\ UNCHANGED <<variant, mainpc, exitCode, dialAttempts, interrupt,
                   tickerOn, conn, readErr, received, messageCount, lastCount,
                   ticks, closeWrites, rates, mainLog>>

NewBaseline_Stale(currentCount) == lastCount

\* main.go:137: the sample becomes the baseline of the next tick.
NewBaseline(currentCount) == currentCount

\* main.go:135: a subtraction of uint64 values; it is the plain difference
\* as long as the sample is not below the baseline.
Rate(currentCount, baseline) == currentCount - baseline

(***************************************************************************)
(* main.go:131-139: one tick of the rate reporter.  Only the atomic load   *)
(* touches shared state; the rest works on the goroutine's own variables.  *)
(***************************************************************************)
Tick ==
    /\ Alive
    /\ tickerOn
    /\ ticks < MaxTicks
    /\ ticks' = ticks + 1
    /\ LET currentCount == messageCount
           rate == Rate(currentCount, lastCount)
       IN  /\ rates' = Append(rates, Line(0, "stdout", "ticker",
                                          "Messages per second", FmtInt(rate)))
           /\ lastCount' = NewBaseline(currentCount)
    /\ UNCHANGED <<variant, mainpc, exitCode, dialAttempts, interrupt,
                   done, readerpc, tickerOn, conn, readErr, received, handled,
                   messageCount, closeWrites, calls, out, mainLog>>

Next ==
    \/ Dial
    \/ Signal
    \/ SelectDone
    \/ SelectInterrupt
    \/ DrainDone
    \/ DrainTimeout
    \/ ReadMessage
    \/ CountMessage
    \/ HandleMessage
    \/ Tick

Spec == Init /\ [][Next]_vars

NextSample ==
    \/ Dial
    \/ Signal
    \/ SelectDone
    \/ SelectInterrupt
    \/ DrainDone
    \/ DrainTimeout
    \/ ReadSample
    \/ CountMessage
    \/ HandleMessage
    \/ Tick

(***************************************************************************)
(* The main goroutine is never starved: a select with a ready case is      *)
(* taken, and the one-second timer of the drain fires.  Whether and when   *)
(* the process ends does not depend on what the messages say, so the runs  *)
(* are those over the sample of messages.                                  *)
(***************************************************************************)
FairSpec ==
    /\ Init /\ [][NextSample]_vars
    /\ WF_vars(SelectDone)
    /\ WF_vars(SelectInterrupt)
    /\ WF_vars(DrainDone)
    /\ WF_vars(DrainTimeout)

(***************************************************************************)
(* Properties.                                                             *)
(***************************************************************************)
LinesOf(i) == SelectSeq(out, LAMBDA l : l.msg = i)

CallsOf(i) == SelectSeq(calls, LAMBDA c : c.msg = i)

\* The messages of the set whose top-level decode fails, per variant.
Undecodable == [vr \in Variants |-> {m \in Messages : UnmarshalEvent(vr, m).err}]

DecodeFails(m) == m \in Undecodable[variant]

\* The read loop has not ended unless ReadMessage returned an error.
LoopEndsOnlyOnReadError == (readerpc = "returned" \/ done) => readErr

\* Once the latest message has been handled the loop is back at its top.
BackAtTop == (handled = Len(received) /\ ~readErr) => readerpc = "read"

\* The message after the i-th, once handled, got the output its own content
\* calls for.
NextUnaffected(i) ==
    i < handled => LET h == Handling(received[i + 1], i + 1)
                   IN  LinesOf(i + 1) = h.out /\ CallsOf(i + 1) = h.calls

(* C1: a message whose top-level decode fails does not end the read loop:  *)
(* exactly one error line is logged for it, no handler is invoked for it,  *)
(* the loop returns to its top, and the next message is handled as its own *)
(* content calls for.                                                      *)
C1_DecodeFailureContinues ==
    \A i \in 1..handled :
        DecodeFails(received[i]) =>
            /\ LinesOf(i) = <<Line(i, "log", "reader", "Error unmarshaling event", "")>>
            /\ CallsOf(i) = <<>>
            /\ LoopEndsOnlyOnReadError
            /\ BackAtTop
            /\ NextUnaffected(i)

C1_Witness ==
    /\ handled = 2
    /\ received[1] = JInvalid
    /\ ~DecodeFails(received[2])
    /\ Len(LinesOf(2)) > 1
    /\ readerpc = "read"

NumDecoded == Cardinality({i \in 1..Len(received) : ~DecodeFails(received[i])})

(* C2 as stated: between messages the counter equals the number of         *)
(* messages whose top-level decode succeeded.                              *)
C2_CounterCountsDecoded ==
    (variant = "counter" /\ readerpc \in {"read", "returned"}) =>
        messageCount = NumDecoded

(* C2 amended: the counter is incremented exactly once per message that    *)
(* ReadMessage returns, before the decode and whatever its outcome: it     *)
(* equals the number of messages read, those that fail to decode included. *)
C2_CounterCountsRead ==
    /\ variant = "counter" =>
          messageCount = IF readerpc = "count" THEN Len(received) - 1
                         ELSE Len(received)
    /\ variant = "inline" => messageCount = 0

C2_Witness ==
    /\ variant = "counter"
    /\ handled = 2
    /\ DecodeFails(received[1])
    /\ ~DecodeFails(received[2])
    /\ messageCount = 2

Interrupted ==
    Len(mainLog) > 0 /\ mainLog[1].key = "Received interrupt signal"

(* C3: once main has taken the interrupt signal, exactly one close frame   *)
(* has been written, main only waits for done or the timeout, and the      *)
(* process then exits with status 0, whether the close write failed and    *)
(* whether or not the read loop ever returns.                              *)
C3_InterruptLeadsToExit ==
    /\ [](Interrupted => closeWrites = 1 /\ mainpc \in {"drain", "exited"})
    /\ [](closeWrites > 0 => Interrupted)
    /\ Interrupted ~> (mainpc = "exited" /\ exitCode = 0)

C3_Witness ==
    /\ Interrupted
    /\ mainpc = "exited"
    /\ ~done
    /\ Len(mainLog) = 2
    /\ mainLog[2].key = "write close"

(***************************************************************************)
(* Messages described by their JSON alone.                                 *)
(***************************************************************************)
Is(o, k, s) == k \in DOMAIN o /\ o[k] = JStr(s)

IsObject(o, k) == k \in DOMAIN o /\ o[k].t = "obj"

KindOf(m) ==
    IF m.t = "obj" /\ "kind" \in DOMAIN m.f /\ m.f.kind.t = "str"
    THEN m.f.kind.s ELSE ""

\* A commit event with the given operation and, when col is not "", the
\* given collection.
IsCommit(m, op, col) ==
    /\ m.t = "obj"
    /\ Is(m.f, "kind", "commit")
    /\ IsObject(m.f, "commit")
    /\ Is(m.f.commit.f, "operation", op)
    /\ col # "" => Is(m.f.commit.f, "collection", col)

\* The record of a commit is a post: text and an RFC 3339 createdAt.
HasGoodPost(m) ==
    /\ IsObject(m.f.commit.f, "record")
    /\ LET r == m.f.commit.f.record.f
       IN  /\ "text" \in DOMAIN r /\ r.text.t = "str"
           /\ "createdAt" \in DOMAIN r /\ r.createdAt.t = "str"
           /\ ~ParseRFC3339(r.createdAt.s).err

WellFormedCreatePost(m) ==
    /\ IsCommit(m, "create", FeedPost)
    /\ HasGoodPost(m)
    /\ ~DecodeFails(m)

PostTimeKeys == {"Post created At", "Post updated At", "Post Created At"}

PostKeys == PostTimeKeys \cup {"Post Text"}

\* How many stdout lines of message i carry one of the labels and the value.
Emitted(i, keys, val) ==
    Len(SelectSeq(out, LAMBDA l : /\ l.msg = i /\ l.stream = "stdout"
                                  /\ l.key \in keys /\ l.val = val))

\* How many stdout lines of message i carry one of the labels.
Labelled(i, keys) ==
    Len(SelectSeq(out, LAMBDA l : l.msg = i /\ l.stream = "stdout" /\ l.key \in keys))

TextOf(m) == m.f.commit.f.record.f.text.s

CreatedOf(m) == TimeString(ParseRFC3339(m.f.commit.f.record.f.createdAt.s).v)

PostReportedOnce(i) ==
    /\ Labelled(i, {"Post Text"}) = 1
    /\ Emitted(i, {"Post Text"}, TextOf(received[i])) = 1
    /\ Labelled(i, PostTimeKeys) = 1
    /\ Emitted(i, PostTimeKeys, CreatedOf(received[i])) = 1

(* C4 as stated: for a handled well-formed create of a feed post the       *)
(* post's text, its creation time and the event's did are each emitted     *)
(* exactly once.                                                           *)
C4_PostAndDidOnce ==
    \A i \in 1..handled :
        WellFormedCreatePost(received[i]) =>
            /\ PostReportedOnce(i)
            /\ Emitted(i, {"DID"}, received[i].f.did.s) = 1

(* C4 amended: for a handled well-formed create of a feed post the post's  *)
(* text and its creation time are each emitted exactly once; the event's   *)
(* did is emitted exactly once by the inline variant and not at all by the *)
(* counter variant, whose processCommit does not print it.                 *)
C4_PostOnceDidInlineOnly ==
    \A i \in 1..handled :
        WellFormedCreatePost(received[i]) =>
            /\ PostReportedOnce(i)
            /\ Labelled(i, {"DID"}) = IF variant = "inline" THEN 1 ELSE 0
            /\ Emitted(i, {"DID"}, received[i].f.did.s) =
                   IF variant = "inline" THEN 1 ELSE 0

C4_Witness ==
    /\ variant = "counter"
    /\ handled = 2
    /\ WellFormedCreatePost(received[1])
    /\ WellFormedCreatePost(received[2])

BadRecordCreatePost(m) ==
    /\ IsCommit(m, "create", FeedPost)
    /\ ~HasGoodPost(m)
    /\ ~DecodeFails(m)
    /\ UnmarshalPost(variant, RawField(m.f.commit.f, "record")).err

ErrorLogged(i, key) ==
    Len(SelectSeq(out, LAMBDA l : l.msg = i /\ l.stream = "log" /\ l.key = key))

(* C5: a well-formed create of a feed post whose record fails the post     *)
(* decode logs one error, emits no post text and no creation time, does    *)
(* not end the read loop, and leaves the next message's handling as its    *)
(* own content calls for.                                                  *)
C5_BadRecordSkipped ==
    \A i \in 1..handled :
        BadRecordCreatePost(received[i]) =>
            /\ ErrorLogged(i, "Error unmarshaling post") = 1
            /\ Labelled(i, PostKeys) = 0
            /\ LoopEndsOnlyOnReadError
            /\ BackAtTop
            /\ NextUnaffected(i)

C5_Witness ==
    /\ handled = 2
    /\ BadRecordCreatePost(received[1])
    /\ WellFormedCreatePost(received[2])
    /\ readerpc = "read"

Kinds == {"commit", "identity", "account"}

\* Decoded, and of no known kind or lacking the payload of its kind.
Unhandled(m) ==
    /\ \/ KindOf(m) \notin Kinds
       \/ ~IsObject(m.f, KindOf(m))
    /\ ~DecodeFails(m)

HandlerLines(i) == SelectSeq(out, LAMBDA l : l.msg = i /\ l.by # "loop")

(* C6: for a decoded event whose kind is not commit, identity or account   *)
(* (an absent kind included), or whose payload for its kind is missing, no *)
(* handler is invoked, no handler reports anything, and the loop goes on.  *)
C6_UnknownKindIgnored ==
    \A i \in 1..handled :
        Unhandled(received[i]) =>
            /\ CallsOf(i) = <<>>
            /\ HandlerLines(i) = <<>>
            /\ LoopEndsOnlyOnReadError
            /\ BackAtTop

C6_Witness ==
    /\ variant = "counter"
    /\ handled = 2
    /\ KindOf(received[1]) = "info"
    /\ IsObject(received[1].f, "commit")
    /\ KindOf(received[2]) = "commit"
    /\ Unhandled(received[2])
    /\ readerpc = "read"

IsDelete(m) == IsCommit(m, "delete", "") /\ ~DecodeFails(m)

(* C7: for a commit event with operation delete no post decode is          *)
(* attempted, no post text or creation time is emitted, nothing is logged  *)
(* as an error, and the loop goes on.                                      *)
C7_DeleteIgnored ==
    \A i \in 1..handled :
        IsDelete(received[i]) =>
            /\ \A k \in 1..Len(calls) :
                  calls[k].msg = i => calls[k].what # "UnmarshalPost"
            /\ Labelled(i, PostKeys) = 0
            /\ \A k \in 1..Len(out) : out[k].msg = i => out[k].stream # "log"
            /\ LoopEndsOnlyOnReadError
            /\ BackAtTop

C7_Witness ==
    /\ handled = 1
    /\ IsDelete(received[1])
    /\ HasGoodPost(received[1])
    /\ Is(received[1].f.commit.f, "collection", FeedPost)
    /\ readerpc = "read"

(* C8: reports are emitted in arrival order: a message is read only after  *)
(* every earlier message has been handled, and the lines and handler       *)
(* invocations of earlier messages precede those of later ones.            *)
C8_ArrivalOrder ==
    /\ handled \in {Len(received), Len(received) - 1}
    /\ handled >= 0
    /\ readerpc = "read" => handled = Len(received)
    /\ \A k \in 1..Len(out) : out[k].msg <= handled
    /\ \A k \in 1..Len(calls) : calls[k].msg <= handled
    /\ \A k \in 1..(Len(out) - 1) :
          out[k + 1].msg > 0 => (out[k].msg > 0 /\ out[k].msg <= out[k + 1].msg)
    /\ \A k \in 1..(Len(calls) - 1) : calls[k].msg <= calls[k + 1].msg

C8_Witness ==
    /\ handled = 2
    /\ Len(LinesOf(1)) > 1
    /\ Len(LinesOf(2)) > 1
    /\ out[Len(out)].msg = 2

(* C9: if the dial fails the process ends at once with a fatal status: one *)
(* dial attempt, no read loop, no ticker, no message read or reported, no  *)
(* close frame.                                                            *)
C9_DialFailureFatal ==
    conn = "failed" =>
        /\ mainpc = "fatal"
        /\ exitCode = 1
        /\ dialAttempts = 1
        /\ readerpc = "idle"
        /\ ~tickerOn
        /\ received = <<>>
        /\ handled = 0
        /\ calls = <<>>
        /\ out = <<>>
        /\ rates = <<>>
        /\ closeWrites = 0
        /\ mainLog = <<Line(0, "log", "main", "dial", "")>>

C9_Witness == conn = "failed" /\ mainpc = "fatal"

(* C10: a read error ends the read loop: the goroutine has returned and    *)
(* done is closed, no message is read, decoded or dispatched afterwards,   *)
(* and the process then exits with status 0, interrupt or not.             *)
C10_ReadErrorEndsLoop ==
    /\ [](readErr => readerpc = "returned" /\ done)
    /\ [][readErr => /\ received' = received
                     /\ handled' = handled
                     /\ calls' = calls
                     /\ out' = out]_vars
    /\ readErr ~> (mainpc = "exited" /\ exitCode = 0)

C10_Witness ==
    /\ readErr
    /\ mainpc = "exited"
    /\ exitCode = 0
    /\ interrupt = 0
    /\ mainLog = <<>>
    /\ handled = 1

(***************************************************************************)
(* The connection lifecycle, read off main's position: ShutdownRequested   *)
(* is the part of the interrupt case before the inner select (log and      *)
(* close write), which SelectInterrupt runs in one step, so it shows as    *)
(* the step into Draining.                                                 *)
(***************************************************************************)
Phase ==
    CASE mainpc = "dial"   -> "Connecting"
      [] mainpc = "select" -> IF done THEN "ConnectionLost" ELSE "Streaming"
      [] mainpc = "drain"  -> "Draining"
      [] OTHER             -> "Terminated"

ClaimedTransitions ==
    { <<"Connecting", "Streaming">>, <<"Connecting", "Terminated">>,
      <<"Streaming", "ConnectionLost">>, <<"Streaming", "Draining">>,
      <<"ConnectionLost", "Draining">>, <<"Draining", "Terminated">> }

(* C11 as stated: the lifecycle takes only the listed transitions, and     *)
(* every run that reaches Terminated from an open connection, on the       *)
(* read-error path as on the interrupt path, gets there through the        *)
(* bounded-wait Draining state; no transition leaves Terminated.           *)
C11_BothPathsDrain ==
    [][ /\ Phase # "Terminated"
        /\ Phase' # Phase => <<Phase, Phase'>> \in ClaimedTransitions ]_vars

(* C11: the lifecycle takes only these transitions: Connecting to          *)
(* Streaming (dial succeeded), Connecting to Terminated (dial failure with *)
(* status 1, or a signal before signal.Notify with status 2), Streaming to *)
(* ConnectionLost (read error), Streaming or ConnectionLost to Draining    *)
(* (main takes an interrupt and writes the close frame), Draining to       *)
(* Terminated, and ConnectionLost to Terminated directly when main takes   *)
(* done: only the interrupt path passes through the bounded wait, the      *)
(* read-error path exits at once with status 0 and no close frame written  *)
(* by that step; no transition leaves Terminated.                          *)
C11_OnlyInterruptPathDrains ==
    [][ /\ Phase # "Terminated"
        /\ Phase' # Phase =>
             CASE Phase = "Connecting" ->
                    \/ Phase' = "Streaming" /\ conn' = "open"
                    \/ Phase' = "Terminated" /\ conn' = "failed" /\ exitCode' = 1
                    \/ Phase' = "Terminated" /\ conn' = "none" /\ exitCode' = 2
               [] Phase = "Streaming" ->
                    \/ Phase' = "ConnectionLost" /\ readErr'
                    \/ Phase' = "Draining" /\ interrupt = 1
                                           /\ closeWrites' = closeWrites + 1
               [] Phase = "ConnectionLost" ->
                    \/ Phase' = "Draining" /\ interrupt = 1
                                           /\ closeWrites' = closeWrites + 1
                    \/ Phase' = "Terminated" /\ exitCode' = 0
                                             /\ closeWrites' = closeWrites
               [] Phase = "Draining" ->
                    Phase' = "Terminated" /\ exitCode' = 0 ]_vars

C11_Witness ==
    /\ Phase = "Terminated"
    /\ exitCode = 0
    /\ readErr
    /\ closeWrites = 0
    /\ handled >= 1

\* A decoded commit event, create or update, of another collection than
\* the feed post.
OtherCollection(m) ==
    /\ \/ IsCommit(m, "create", "")
       \/ IsCommit(m, "update", "")
    /\ "collection" \in DOMAIN m.f.commit.f
    /\ m.f.commit.f.collection.t = "str"
    /\ m.f.commit.f.collection.s # FeedPost
    /\ ~DecodeFails(m)

NoPostDecode(i) ==
    \A k \in 1..Len(calls) : calls[k].msg = i => calls[k].what # "UnmarshalPost"

NothingLogged(i) ==
    \A k \in 1..Len(out) : out[k].msg = i => out[k].stream # "log"

KeysOf(lines) == [k \in 1..Len(lines) |-> lines[k].key]

(* C12 as stated: for a commit event, create or update, of a collection    *)
(* other than app.bsky.feed.post, the record is never decoded, nothing     *)
(* extracted from the message is emitted, and no error is logged.          *)
C12_OtherCollectionSilent ==
    \A i \in 1..handled :
        OtherCollection(received[i]) =>
            /\ NoPostDecode(i)
            /\ HandlerLines(i) = <<>>
            /\ NothingLogged(i)

(* C12: for a commit event, create or update, of a collection other than   *)
(* app.bsky.feed.post, the record is never decoded, no post text or        *)
(* creation time is emitted and no error is logged; the counter variant    *)
(* emits nothing at all for the message, the inline variant emits the      *)
(* event kind and, for create only, the block of the event's did and time  *)
(* and the commit's operation, collection, rkey, cid and rev.              *)
C12_OtherCollectionNoPost ==
    \A i \in 1..handled :
        OtherCollection(received[i]) =>
            /\ NoPostDecode(i)
            /\ Labelled(i, PostKeys) = 0
            /\ NothingLogged(i)
            /\ variant = "counter" => LinesOf(i) = <<>>
            /\ variant = "inline" =>
                 /\ Emitted(i, {"event.Kind"}, "commit") = 1
                 /\ KeysOf(HandlerLines(i)) =
                      IF Is(received[i].f.commit.f, "operation", "create")
                      THEN <<"", "DID", "Time", "Operation", "Collection",
                             "RKey", "CID", "Rev", "">>
                      ELSE <<>>
                 /\ Emitted(i, {"Collection"},
                            received[i].f.commit.f.collection.s)
                      = Labelled(i, {"Collection"})

C12_Witness ==
    /\ variant = "inline"
    /\ handled = 2
    /\ OtherCollection(received[1])
    /\ Is(received[1].f.commit.f, "operation", "create")
    /\ OtherCollection(received[2])
    /\ Is(received[2].f.commit.f, "operation", "update")

\* The read loop is in the middle of a message: ReadMessage has returned
\* it and the code from the decode to the end of the dispatch
\* (main.go:156-162) has not finished; its effects show when it finishes.
InFlight == readerpc = "handle" /\ handled < Len(received)

Terminated == mainpc \in {"exited", "fatal", "killed"}

(* C13 as stated: when the process terminates no message is left in the    *)
(* middle of its decode or dispatch, on the drain-timeout path as on the   *)
(* others.                                                                 *)
C13_NoMessageCutOff == Terminated => ~InFlight

(* C13: a process that terminates because the read loop signalled          *)
(* completion has handled every message it received to completion; a       *)
(* message is left in the middle of its decode or dispatch only when main  *)
(* took an interrupt and the one-second wait ran out before the read loop  *)
(* signalled completion.                                                   *)
C13_CutOffOnlyOnTimeout ==
    Terminated =>
        /\ done => handled = Len(received) /\ readerpc = "returned"
        /\ handled # Len(received) =>
              /\ mainpc = "exited"
              /\ Interrupted
              /\ closeWrites = 1
              /\ ~done
        /\ handled \in {Len(received), Len(received) - 1}

C13_Witness ==
    /\ mainpc = "exited"
    /\ InFlight
    /\ Interrupted
    /\ ~done
    /\ handled = 1
    /\ Len(LinesOf(1)) > 0
    /\ LinesOf(2) = <<>>

HandlerOf(kind) ==
    CASE kind = "commit"   -> "processCommit"
      [] kind = "identity" -> "processIdentity"
      [] kind = "account"  -> "processAccount"
      [] OTHER             -> "none"

Handlers == {"processCommit", "processIdentity", "processAccount"}

HandlerCalls(i) ==
    SelectSeq(calls, LAMBDA c : c.msg = i /\ c.what \in Handlers)

\* More than one of the three payloads is populated.
MultiPayload(m) ==
    /\ m.t = "obj"
    /\ Cardinality({k \in Kinds : IsObject(m.f, k)}) > 1
    /\ ~DecodeFails(m)

(* C14: processEvent invokes at most one handler per event, the one its    *)
(* kind selects, every line a handler reports comes from that handler and  *)
(* from the payload of that kind, and this holds for an event with more    *)
(* than one payload populated: the payloads that do not match kind are     *)
(* never reported.                                                         *)
C14_OneHandlerByKind ==
    variant = "counter" =>
        \A i \in 1..handled :
            LET m  == received[i]
                hs == HandlerCalls(i)
                h  == HandlerOf(KindOf(m))
            IN  /\ Len(hs) <= 1
                /\ \A k \in 1..Len(hs) : hs[k].what = h
                /\ \A k \in 1..Len(out) :
                      out[k].msg = i /\ out[k].by \in Handlers => out[k].by = h
                /\ MultiPayload(m) /\ KindOf(m) = "identity" =>
                      /\ Len(hs) = 1
                      /\ Emitted(i, {"Handle"}, m.f.identity.f.handle.s) = 1
                      /\ Emitted(i, {"DID"}, m.f.did.s) = 1
                      /\ Labelled(i, PostKeys \cup {"Active"}) = 0

C14_Witness ==
    /\ variant = "counter"
    /\ handled = 1
    /\ MultiPayload(received[1])
    /\ KindOf(received[1]) = "identity"
    /\ IsObject(received[1].f, "commit")
    /\ HandlerCalls(1) = <<Call(1, "processIdentity")>>
    /\ Len(LinesOf(1)) = 7

\* The number a rate line shows.
Figure(l) == CHOOSE n \in -MaxMsgs..MaxMsgs : FmtInt(n) = l.val

RECURSIVE SumOfFigures(_)
SumOfFigures(k) == IF k = 0 THEN 0 ELSE SumOfFigures(k - 1) + Figure(rates[k])

(* C15: each tick emits one figure, the counter value it samples minus the *)
(* value sampled at the previous tick (0 before the first), and makes the  *)
(* sample the new baseline; so at any time the figures emitted so far add  *)
(* up to the counter value at the latest tick, each counted message being  *)
(* in exactly one figure once a tick has followed its counting.            *)
C15_RateIsDelta ==
    /\ [][ticks' # ticks =>
            /\ ticks' = ticks + 1
            /\ rates' = Append(rates, Line(0, "stdout", "ticker",
                                           "Messages per second",
                                           FmtInt(messageCount - lastCount)))
            /\ lastCount' = messageCount
            /\ messageCount' = messageCount]_vars
    /\ [][ticks' = ticks => rates' = rates /\ lastCount' = lastCount]_vars
    /\ [](/\ Len(rates) = ticks
          /\ SumOfFigures(Len(rates)) = lastCount
          /\ lastCount <= messageCount
          /\ ticks = 0 => lastCount = 0)

C15_Witness ==
    /\ ticks = 2
    /\ messageCount = 2
    /\ Figure(rates[1]) = 1
    /\ Figure(rates[2]) = 1
    /\ lastCount = 2

(* C16: under every interleaving of the read loop's increments with the    *)
(* ticker's loads, each increment raises the counter by exactly one, so    *)
(* the counter equals the number of messages counted and never decreases;  *)
(* the values the ticker samples are non-decreasing, and at every tick the *)
(* sample is not below the baseline, so currentCount - lastCount does not  *)
(* wrap around.                                                            *)
C16_CounterMonotonic ==
    /\ [][/\ messageCount' >= messageCount
          /\ lastCount' >= lastCount
          /\ readerpc = "count" /\ readerpc' # "count" =>
                messageCount' = messageCount + 1
          /\ ticks' # ticks => Rate(messageCount, lastCount) >= 0]_vars
    /\ [](/\ variant = "counter" =>
                messageCount = Len(received) - (IF readerpc = "count" THEN 1 ELSE 0)
          /\ \A k \in 1..Len(rates) : Figure(rates[k]) >= 0)

C16_Witness ==
    /\ ticks = 2
    /\ Figure(rates[1]) = 0
    /\ Figure(rates[2]) = 1
    /\ lastCount = 1
    /\ messageCount = 2
    /\ readerpc = "handle"

\* A decoded commit event whose operation is not create.
NonCreateCommit(m) ==
    /\ m.t = "obj"
    /\ Is(m.f, "kind", "commit")
    /\ IsObject(m.f, "commit")
    /\ ~Is(m.f.commit.f, "operation", "create")
    /\ ~DecodeFails(m)

(* C17: a commit event whose operation is anything other than create,      *)
(* update included, leads to no second-stage decode of its record and to   *)
(* no output of the commit handler.                                        *)
C17_OnlyCreateProcessed ==
    \A i \in 1..handled :
        NonCreateCommit(received[i]) =>
            /\ NoPostDecode(i)
            /\ HandlerLines(i) = <<>>

\* A report without the position of its message in the run.
Unplaced(s) == [k \in 1..Len(s) |-> [s[k] EXCEPT !.msg = 0]]

\* For each variant and message, the report the message's content calls
\* for: the decode error line, or what the variant's handlers make of the
\* decoded event.
Reports ==
    [vr \in Variants |->
        [m \in Messages |->
            LET d == UnmarshalEvent(vr, m)
                h == IF d.err THEN [calls |-> <<>>, out |-> DecodeErrorLines(1)]
                     ELSE IF vr = "counter" THEN processEvent(d.v, 1)
                     ELSE InlineEvent(d.v, 1)
            IN  [calls |-> Unplaced(h.calls), out |-> Unplaced(h.out)]]]

\* The report of message m when it is the first message of a run.
ReportAlone(m) == Reports[variant][m]

ReportAt(i) == [calls |-> Unplaced(CallsOf(i)), out |-> Unplaced(LinesOf(i))]

C19_CloseOnlyOnInterrupt ==
    /\ closeWrites \in {0, 1}
    /\ closeWrites = 1 <=> Interrupted
    /\ closeWrites = 1 => mainpc \in {"drain", "exited"} /\ conn = "open"
    /\ mainpc \in {"fatal", "killed"} => closeWrites = 0
    /\ mainpc = "exited" /\ done /\ ~Interrupted => closeWrites = 0

C19_Witness ==
    /\ mainpc = "exited"
    /\ readErr
    /\ done
    /\ interrupt = 1
    /\ ~Interrupted
    /\ closeWrites = 0

====
